---------------------------- MODULE Spec2Model ----------------------------
(***************************************************************************)
(* Model of src/App.py: the timer-based performance influence simulation.  *)
(*                                                                         *)
(* PerformanceInfluenceModel.__init__ builds a preferential-attachment     *)
(* graph, samples the initial high performers and creates one Employee per *)
(* node.  PerformanceInfluenceModel.step runs an interaction phase (every  *)
(* node calls Employee.interact on its neighbours) followed by an update   *)
(* phase (every node calls Employee.update_status, transitions are counted *)
(* and the metric sequences are appended).                                 *)
(*                                                                         *)
(* Probabilities are in hundredths: influence_probability 0.5 is 50 and a  *)
(* draw of random.random() is a number of hundredths in 0..99.             *)
(***************************************************************************)
EXTENDS Integers, Sequences, FiniteSets

VARIABLES
    params,             \* the keyword arguments given to the constructor
    G,                  \* self.G: the set of undirected edges {a, b}
    employees,          \* self.employees: node -> Employee
    history,            \* self.history
    influence_counts,   \* self.influence_counts
    engaged_counts,     \* self.engaged_counts
    disengaged_counts,  \* self.disengaged_counts
    step_num,           \* the driver loop's step_num: the calls of step so far
    smoothing,          \* a call of moving_average: its arguments and result
    phase               \* "error": construction raised; "idle": between two
                        \* steps; "update": step is between its two loops

vars == <<params, G, employees, history, influence_counts, engaged_counts,
          disengaged_counts, step_num, smoothing, phase>>

---------------------------------------------------------------------------
(* Bounds of the model *)

\* Largest number of employees N the constructor is called with.
MaxN == 4

\* Number of steps run by the driver loop (params["steps"]).
MaxSteps == 5

\* Largest number of employees when the graph is any simple graph.
MaxGraphN == 3

\* Longest sequence given to moving_average.
MaxLen == 4

\* Largest window_size given to moving_average.
MaxWindow == 3

\* Largest number in a sequence given to moving_average.
MaxCount == 2

---------------------------------------------------------------------------
(* Program constants *)

\* The attachment count of barabasi_albert_graph(self.num_employees, 3).
M == 3

\* The default of the "Initial High Performers" slider.
DefaultSeedCount == 3

\* The engagement period set on promotion: self.engagement_timer = 3.
EngagementPeriod == 3

\* random.choice([1, 2, 3, 4])
Capacities == {1, 2, 3, 4}

\* The coin threshold of update_status: random.random() > 0.5.
CoinThreshold == 50

Statuses == {"high_performer", "neutral", "engaged", "disengaged"}

\* Values of random.random(), in hundredths: the least value 0.0 and a
\* value just below 1.0.
RandomDraws == {0, 99}

\* Values of the influence probability slider, in hundredths: the zero
\* boundary and the slider's default 0.5.
Probabilities == {0, 50}

\* The values of N: barabasi_albert_graph(n, 3) needs n > 3.
NValues == (M + 1)..MaxN

\* The values of initial_high_performers, one more than the population
\* included.
SeedCounts == 1..(MaxN + 1)

---------------------------------------------------------------------------
(* moving_average *)

\* No call of moving_average is modelled.
NoCall == [data |-> <<>>, window_size |-> 0, result |-> <<>>, returned |-> FALSE]

\* Rational numbers are pairs <<numerator, denominator>>.
RatAdd(x, y) == <<x[1] * y[2] + y[1] * x[2], x[2] * y[2]>>

RatScale(a, x) == <<a * x[1], x[2]>>

RatEq(x, y) == x[1] * y[2] = y[1] * x[2]

\* np.ones(window_size) / window_size
kernel(window_size) == [k \in 1..window_size |-> <<1, window_size>>]

\* The sum over k = j..Len(v) of a[i + Len(v) - k] * v[k].
RECURSIVE ConvolveAt(_, _, _, _)
ConvolveAt(a, v, i, j) ==
    IF j > Len(v) THEN <<0, 1>>
    ELSE RatAdd(RatScale(a[i + Len(v) - j], v[j]), ConvolveAt(a, v, i, j + 1))

\* np.convolve(a, v, mode='valid') for Len(a) >= Len(v): one entry per
\* position at which v overlaps a completely.
convolve_valid(a, v) ==
    [i \in 1..(Len(a) - Len(v) + 1) |-> ConvolveAt(a, v, i, 1)]

\* moving_average dividing by len(data) instead of window_size.
moving_average_by_length(data, window_size) ==
    IF Len(data) < window_size
    THEN data
    ELSE convolve_valid(data, [k \in 1..window_size |-> <<1, Len(data)>>])

moving_average(data, window_size) ==
    IF Len(data) < window_size
    THEN data
    ELSE convolve_valid(data, kernel(window_size))

\* The sequences of at most MaxLen numbers in 0..MaxCount.
DataValues == UNION {[1..l -> 0..MaxCount] : l \in 0..MaxLen}

\* A pending call moving_average(data, window_size) with window_size >= 1.
InitMovingAverage ==
    /\ params = [N |-> 0, initial_high_performers |-> 0,
                 influence_probability |-> 0]
    /\ G = {}
    /\ employees = <<>>
    /\ history = <<>>
    /\ influence_counts = <<>>
    /\ engaged_counts = <<>>
    /\ disengaged_counts = <<>>
    /\ step_num = 0
    /\ phase = "plot"
    /\ \E data \in DataValues, window_size \in 1..MaxWindow :
          smoothing = [data |-> data, window_size |-> window_size,
                       result |-> <<>>, returned |-> FALSE]

\* The call returns.
CallMovingAverage ==
    /\ phase = "plot"
    /\ ~smoothing.returned
    /\ smoothing' = [smoothing EXCEPT
                        !.result = moving_average(smoothing.data,
                                                  smoothing.window_size),
                        !.returned = TRUE]
    /\ UNCHANGED <<params, G, employees, history, influence_counts,
                   engaged_counts, disengaged_counts, step_num, phase>>

SpecMovingAverage == InitMovingAverage /\ [][CallMovingAverage]_vars

---------------------------------------------------------------------------
(* Construction *)

Nodes(n) == 0..(n - 1)

star_graph(m) == {{0, i} : i \in 1..m}

\* The graphs barabasi_albert_graph(n, m) can return: a star on the nodes
\* 0..m, then every further node attached to m distinct earlier nodes.
RECURSIVE barabasi_albert_graph(_, _)
barabasi_albert_graph(n, m) ==
    IF n = m + 1 THEN {star_graph(m)}
    ELSE LET source == n - 1
         IN  {g \cup {{source, t} : t \in targets} :
                 g \in barabasi_albert_graph(n - 1, m),
                 targets \in {s \in SUBSET Nodes(n - 1) : Cardinality(s) = m}}

\* neighbors ignoring the edge set: every other node of the graph.
neighbors_all(g, node) == {n \in UNION g : n # node}

neighbors(g, node) == {n \in UNION g : {node, n} \in g /\ n # node}

\* sample selecting min(k, len(population)) members instead of raising.
sample_clamped(population, k) ==
    {[raised |-> "", value |-> s] :
        s \in {t \in SUBSET population :
                  Cardinality(t) = IF k > Cardinality(population)
                                   THEN Cardinality(population) ELSE k}}

\* sample selecting one member too few.
sample_short(population, k) ==
    IF k > Cardinality(population) \/ k < 0
    THEN {[raised |-> "ValueError", value |-> {}]}
    ELSE {[raised |-> "", value |-> s] :
             s \in {t \in SUBSET population : Cardinality(t) = k - 1}}

\* random.sample(population, k): the possible outcomes, a raised ValueError
\* or a returned selection of k distinct members.
sample(population, k) ==
    IF k > Cardinality(population) \/ k < 0
    THEN {[raised |-> "ValueError", value |-> {}]}
    ELSE {[raised |-> "", value |-> s] :
             s \in {t \in SUBSET population : Cardinality(t) = k}}

Employee(unique_id, status, capacity) ==
    [unique_id |-> unique_id, status |-> status, capacity |-> capacity,
     influence_timer |-> 0, engagement_timer |-> 0]

\* The simple graphs on the nodes 0..n-1.
simple_graphs(n) ==
    SUBSET {e \in SUBSET Nodes(n) : Cardinality(e) = 2}

\* PerformanceInfluenceModel(N=n, initial_high_performers=k,
\* influence_probability=p) with g the graph built for self.G.
Construct(n, k, p, g) ==
    /\ params = [N |-> n, initial_high_performers |-> k,
                 influence_probability |-> p]
    /\ G = g
    /\ history = <<>>
    /\ influence_counts = <<>>
    /\ engaged_counts = <<>>
    /\ disengaged_counts = <<>>
    /\ step_num = 0
    /\ smoothing = NoCall
    /\ \E sampled \in sample(Nodes(n), k) :
          IF sampled.raised # ""
          THEN /\ employees = <<>>
               /\ phase = "error"
          ELSE /\ \E capacity \in [Nodes(n) -> Capacities] :
                    employees =
                      [node \in Nodes(n) |->
                         Employee(node,
                                  IF node \in sampled.value
                                  THEN "high_performer" ELSE "neutral",
                                  capacity[node])]
               /\ phase = "idle"

Init ==
    \E n \in NValues, k \in SeedCounts, p \in Probabilities :
        \E g \in barabasi_albert_graph(n, M) : Construct(n, k, p, g)

\* Construction with influence_probability = 1.0, the end of its slider,
\* and the default of the initial_high_performers slider.
InitCertainInfluence ==
    \E n \in NValues :
        \E g \in barabasi_albert_graph(n, M) :
            Construct(n, DefaultSeedCount, 100, g)

\* Construction over any simple graph on up to MaxGraphN nodes, for the
\* behaviour of step on nodes without edges.
InitAnyGraph ==
    \E n \in 1..MaxGraphN, k \in 1..(MaxGraphN + 1), p \in Probabilities :
        \E g \in simple_graphs(n) : Construct(n, k, p, g)

---------------------------------------------------------------------------
(* Employee.interact *)

\* The (influencer, colleague) pairs for which interact draws a number.
InfluencePairs(emps, g) ==
    {pr \in (DOMAIN emps) \X (DOMAIN emps) :
        /\ pr[2] \in neighbors(g, pr[1])
        /\ emps[pr[1]].status = "high_performer"
        /\ emps[pr[2]].status = "neutral"}

\* Influenced comparing with <= instead of <.
Influenced_le(draw, influence_probability, capacity) ==
    draw * capacity <= influence_probability

\* random.random() < influence_probability * (1.0 / colleague.capacity)
Influenced(draw, influence_probability, capacity) ==
    draw * capacity < influence_probability

\* interact influencing every colleague that is not neutral as well.
interact_any(emps, node, colleagues, influence_probability, draws) ==
    IF emps[node].status = "high_performer"
    THEN [c \in DOMAIN emps |->
            IF /\ c \in colleagues
               /\ (emps[c].status = "neutral"
                     => Influenced(draws[<<node, c>>], influence_probability,
                                   emps[c].capacity))
            THEN [emps[c] EXCEPT !.influence_timer = emps[node].capacity]
            ELSE emps[c]]
    ELSE emps

\* interact promoting an influenced colleague at once instead of starting
\* its influence_timer.
interact_promote(emps, node, colleagues, influence_probability, draws) ==
    IF emps[node].status = "high_performer"
    THEN [c \in DOMAIN emps |->
            IF /\ c \in colleagues
               /\ emps[c].status = "neutral"
               /\ Influenced(draws[<<node, c>>], influence_probability,
                             emps[c].capacity)
            THEN [emps[c] EXCEPT !.status = "high_performer"]
            ELSE emps[c]]
    ELSE emps

\* interact starting the timer with the colleague's own capacity.
interact_own_capacity(emps, node, colleagues, influence_probability, draws) ==
    IF emps[node].status = "high_performer"
    THEN [c \in DOMAIN emps |->
            IF /\ c \in colleagues
               /\ emps[c].status = "neutral"
               /\ Influenced(draws[<<node, c>>], influence_probability,
                             emps[c].capacity)
            THEN [emps[c] EXCEPT !.influence_timer = emps[c].capacity]
            ELSE emps[c]]
    ELSE emps

\* self.interact(colleagues, influence_probability) for self = node, with
\* draws[<<node, c>>] the number drawn for colleague c.
interact(emps, node, colleagues, influence_probability, draws) ==
    IF emps[node].status = "high_performer"
    THEN [c \in DOMAIN emps |->
            IF /\ c \in colleagues
               /\ emps[c].status = "neutral"
               /\ Influenced(draws[<<node, c>>], influence_probability,
                             emps[c].capacity)
            THEN [emps[c] EXCEPT !.influence_timer = emps[node].capacity]
            ELSE emps[c]]
    ELSE emps

\* The first loop of step: interact for the nodes order[i..], in order.
RECURSIVE InteractAll(_, _, _, _, _, _)
InteractAll(emps, g, order, i, influence_probability, draws) ==
    IF i > Len(order) THEN emps
    ELSE InteractAll(
            interact(emps, order[i], neighbors(g, order[i]),
                     influence_probability, draws),
            g, order, i + 1, influence_probability, draws)

\* The iteration order of self.employees.items(): insertion order.
NodeOrder(n) == [i \in 1..n |-> i - 1]

---------------------------------------------------------------------------
(* Employee.update_status *)

\* update_status writing a status outside the four statuses on burnout.
update_status_typo(e, draw) ==
    IF e.status = "neutral" /\ e.influence_timer > 0
    THEN IF e.influence_timer - 1 = 0
         THEN [e EXCEPT !.influence_timer = 0,
                        !.status = "high_performer",
                        !.engagement_timer = EngagementPeriod]
         ELSE [e EXCEPT !.influence_timer = e.influence_timer - 1]
    ELSE IF e.status = "high_performer" /\ e.engagement_timer > 0
    THEN IF e.engagement_timer - 1 = 0
         THEN [e EXCEPT !.engagement_timer = 0,
                        !.status = IF draw > CoinThreshold
                                   THEN "engaged" ELSE "burnout"]
         ELSE [e EXCEPT !.engagement_timer = e.engagement_timer - 1]
    ELSE e

\* update_status resolving a neutral employee directly when its
\* influence_timer reaches zero.
update_status_direct(e, draw) ==
    IF e.status = "neutral" /\ e.influence_timer > 0
    THEN IF e.influence_timer - 1 = 0
         THEN [e EXCEPT !.influence_timer = 0,
                        !.status = IF draw > CoinThreshold
                                   THEN "engaged" ELSE "disengaged"]
         ELSE [e EXCEPT !.influence_timer = e.influence_timer - 1]
    ELSE IF e.status = "high_performer" /\ e.engagement_timer > 0
    THEN IF e.engagement_timer - 1 = 0
         THEN [e EXCEPT !.engagement_timer = 0,
                        !.status = IF draw > CoinThreshold
                                   THEN "engaged" ELSE "disengaged"]
         ELSE [e EXCEPT !.engagement_timer = e.engagement_timer - 1]
    ELSE e

\* update_status decrementing the influence_timer of every neutral
\* employee, without the test influence_timer > 0.
update_status_unguarded(e, draw) ==
    IF e.status = "neutral"
    THEN IF e.influence_timer - 1 = 0
         THEN [e EXCEPT !.influence_timer = 0,
                        !.status = "high_performer",
                        !.engagement_timer = EngagementPeriod]
         ELSE [e EXCEPT !.influence_timer = e.influence_timer - 1]
    ELSE IF e.status = "high_performer" /\ e.engagement_timer > 0
    THEN IF e.engagement_timer - 1 = 0
         THEN [e EXCEPT !.engagement_timer = 0,
                        !.status = IF draw > CoinThreshold
                                   THEN "engaged" ELSE "disengaged"]
         ELSE [e EXCEPT !.engagement_timer = e.engagement_timer - 1]
    ELSE e

\* update_status with a second if in place of the elif: a promoted
\* employee's engagement_timer is decremented in the same call.
update_status_fallthrough(e, draw) ==
    LET first ==
          IF e.status = "neutral" /\ e.influence_timer > 0
          THEN IF e.influence_timer - 1 = 0
               THEN [e EXCEPT !.influence_timer = 0,
                              !.status = "high_performer",
                              !.engagement_timer = EngagementPeriod]
               ELSE [e EXCEPT !.influence_timer = e.influence_timer - 1]
          ELSE e
    IN  IF first.status = "high_performer" /\ first.engagement_timer > 0
        THEN IF first.engagement_timer - 1 = 0
             THEN [first EXCEPT !.engagement_timer = 0,
                                !.status = IF draw > CoinThreshold
                                           THEN "engaged" ELSE "disengaged"]
             ELSE [first EXCEPT
                     !.engagement_timer = first.engagement_timer - 1]
        ELSE first

update_status(e, draw) ==
    IF e.status = "neutral" /\ e.influence_timer > 0
    THEN IF e.influence_timer - 1 = 0
         THEN [e EXCEPT !.influence_timer = 0,
                        !.status = "high_performer",
                        !.engagement_timer = EngagementPeriod]
         ELSE [e EXCEPT !.influence_timer = e.influence_timer - 1]
    ELSE IF e.status = "high_performer" /\ e.engagement_timer > 0
    THEN IF e.engagement_timer - 1 = 0
         THEN [e EXCEPT !.engagement_timer = 0,
                        !.status = IF draw > CoinThreshold
                                   THEN "engaged" ELSE "disengaged"]
         ELSE [e EXCEPT !.engagement_timer = e.engagement_timer - 1]
    ELSE e

\* The employees for which update_status draws a number: those whose
\* engagement_timer reaches zero.
Resolving(emps) ==
    {n \in DOMAIN emps : /\ ~(emps[n].status = "neutral" /\
                                emps[n].influence_timer > 0)
                          /\ emps[n].status = "high_performer"
                          /\ emps[n].engagement_timer = 1}

\* A count of the employees that are in status b after the update,
\* whatever they were before.
Transitions_any(old, new, a, b) ==
    Cardinality({n \in DOMAIN old : new[n].status = b})

\* The number of employees that went from status a to status b.
Transitions(old, new, a, b) ==
    Cardinality({n \in DOMAIN old : old[n].status = a /\ new[n].status = b})

---------------------------------------------------------------------------
(* PerformanceInfluenceModel.step *)

\* An assignment of a one-element list instead of an append.
overwrite(list, x) == <<x>>

\* list.append
append(list, x) == Append(list, x)

\* {node: employee.status for node, employee in self.employees.items()}
StatusOf(emps) == [n \in DOMAIN emps |-> emps[n].status]

\* The first loop of step, lines 75-77, entered from the driver loop.
InteractPhase ==
    /\ phase = "idle"
    /\ step_num < MaxSteps
    /\ step_num' = step_num + 1
    /\ \E draws \in [InfluencePairs(employees, G) -> RandomDraws] :
          employees' = InteractAll(employees, G, NodeOrder(params.N), 1,
                                   params.influence_probability, draws)
    /\ phase' = "update"
    /\ UNCHANGED <<params, G, history, influence_counts, engaged_counts,
                   disengaged_counts, smoothing>>

\* The second loop of step and the appends, lines 79-92.
UpdatePhase ==
    /\ phase = "update"
    /\ \E draws \in [Resolving(employees) -> RandomDraws] :
          LET new == [n \in DOMAIN employees |->
                        update_status(employees[n],
                                      IF n \in DOMAIN draws
                                      THEN draws[n] ELSE 0)]
          IN  /\ employees' = new
              /\ influence_counts' =
                    append(influence_counts,
                           Transitions(employees, new,
                                       "neutral", "high_performer"))
              /\ engaged_counts' =
                    append(engaged_counts,
                           Transitions(employees, new,
                                       "high_performer", "engaged"))
              /\ disengaged_counts' =
                    append(disengaged_counts,
                           Transitions(employees, new,
                                       "high_performer", "disengaged"))
              /\ history' = append(history, StatusOf(new))
    /\ phase' = "idle"
    /\ UNCHANGED <<params, G, step_num, smoothing>>

Next == InteractPhase \/ UpdatePhase

Spec == Init /\ [][Next]_vars

SpecAnyGraph == InitAnyGraph /\ [][Next]_vars

\* Runs with influence_probability = 1.0 and the default number of initial
\* high performers. The driver loop calls step until step_num
\* reaches its bound and step runs both of its loops to the end, hence the
\* weak fairness of Next.
FairCertainSpec == InitCertainInfluence /\ [][Next]_vars /\ WF_vars(Next)

---------------------------------------------------------------------------
(* Properties *)

Constructed == phase # "error"

StepDone == phase = "idle" /\ step_num > 0

RunComplete == phase = "idle" /\ step_num = MaxSteps

CountOf(status) ==
    Cardinality({n \in DOMAIN employees : employees[n].status = status})

Resolved == {"engaged", "disengaged"}

\* C1: after construction and after any number of steps there is exactly
\* one employee per node 0..N-1, every employee's status is one of the four
\* statuses, and the four status counts add up to N.
C1_StatusDomain ==
    Constructed =>
        /\ DOMAIN employees = Nodes(params.N)
        /\ \A n \in DOMAIN employees : employees[n].status \in Statuses
        /\ CountOf("high_performer") + CountOf("neutral")
             + CountOf("engaged") + CountOf("disengaged") = params.N

C1_Witness ==
    /\ RunComplete
    /\ CountOf("engaged") > 0
    /\ CountOf("disengaged") > 0
    /\ CountOf("high_performer") > 0

\* C2: an employee whose status becomes engaged or disengaged was a
\* high_performer before the update loop, at the end of the previous step
\* and (the interaction loop changing no status) at the start of the step.
C2_ResolvedOnlyFromHighPerformer ==
    [][\A n \in DOMAIN employees :
          /\ (phase = "idle" =>
                employees'[n].status = employees[n].status)
          /\ (/\ employees'[n].status \in Resolved
              /\ employees'[n].status # employees[n].status)
             => /\ phase = "update"
                /\ employees[n].status = "high_performer"
                /\ history # <<>>
                   => history[Len(history)][n] = "high_performer"]_vars

C2_Witness ==
    /\ StepDone
    /\ Len(history) >= 2
    /\ \E n, m \in DOMAIN employees :
          /\ employees[n].status \in Resolved
          /\ history[Len(history) - 1][n] = "high_performer"
          /\ employees[m].status = "high_performer"
          /\ history[Len(history) - 1][m] = "neutral"

\* C3: at the end of the run, every employee that was a high_performer at
\* the end of a step at least EngagementPeriod steps before the last one
\* (an initial high performer is one at the end of step 1) is engaged or
\* disengaged.
C3_HighPerformerResolves ==
    RunComplete =>
        \A n \in DOMAIN employees :
            (\E t \in 1..(MaxSteps - EngagementPeriod) :
                 history[t][n] = "high_performer")
            => employees[n].status \in Resolved

\* C4: with influence_probability = 0 every influence_timer stays 0, the
\* neutral employees are the N - initial_high_performers that started
\* neutral, and no neutral employee changes status.
C4_ZeroInfluence ==
    /\ [](Constructed /\ params.influence_probability = 0 =>
            /\ \A n \in DOMAIN employees : employees[n].influence_timer = 0
            /\ CountOf("neutral") = params.N - params.initial_high_performers)
    /\ [][params.influence_probability = 0 =>
            \A n \in DOMAIN employees :
                employees[n].status = "neutral"
                => employees'[n].status = "neutral"]_vars

C4_Witness ==
    /\ RunComplete
    /\ params.influence_probability = 0
    /\ InfluencePairs(employees, G) # {}

\* C5: an engaged or disengaged employee keeps its status and both of its
\* timers in every later step.
C5_Absorbing ==
    [][\A n \in DOMAIN employees :
          employees[n].status \in Resolved
          => employees'[n] = employees[n]]_vars

C5_Witness ==
    /\ StepDone
    /\ Len(history) >= 2
    /\ \E n \in DOMAIN employees :
          /\ history[Len(history) - 1][n] \in Resolved
          /\ \E m \in neighbors(G, n) :
                history[Len(history) - 1][m] = "high_performer"

\* C6: right after construction with 0 < initial_high_performers <= N,
\* exactly initial_high_performers employees are high_performer and all
\* the others are neutral.
C6_SeedCount ==
    /\ phase = "idle"
    /\ step_num = 0
    /\ 0 < params.initial_high_performers
    /\ params.initial_high_performers <= params.N
    => /\ CountOf("high_performer") = params.initial_high_performers
       /\ CountOf("neutral") = params.N - params.initial_high_performers
       /\ DOMAIN employees = Nodes(params.N)

C6_Witness ==
    /\ phase = "idle"
    /\ step_num = 0
    /\ params.initial_high_performers = params.N
    /\ \A n \in Nodes(params.N) : employees[n].status = "high_performer"

\* C7: with initial_high_performers > N construction raises: there is no
\* employee, no step is ever run and no metric entry is ever recorded.
C7_TooManySeedsFails ==
    params.initial_high_performers > params.N =>
        /\ phase = "error"
        /\ employees = <<>>
        /\ step_num = 0
        /\ history = <<>>
        /\ influence_counts = <<>>
        /\ engaged_counts = <<>>
        /\ disengaged_counts = <<>>

C7_Witness ==
    /\ phase = "error"
    /\ params.initial_high_performers = params.N + 1

\* C8: in every state, the one between the two loops of step included,
\* both timers of every employee are >= 0.
C8_TimersNonNegative ==
    \A n \in DOMAIN employees :
        /\ employees[n].influence_timer >= 0
        /\ employees[n].engagement_timer >= 0

C8_Witness ==
    /\ phase = "update"
    /\ \E n, m \in DOMAIN employees :
          /\ employees[n].status \in Resolved
          /\ employees[n].engagement_timer = 0
          /\ employees[m].status = "neutral"
          /\ employees[m].influence_timer > 0

\* C9: the four metric sequences have one entry per completed step, a step
\* only appends to them, and the last history entry is the statuses at the
\* end of the step.
C9_AppendOnly ==
    /\ [](Constructed =>
            /\ Len(history) = IF phase = "update" THEN step_num - 1
                              ELSE step_num
            /\ Len(influence_counts) = Len(history)
            /\ Len(engaged_counts) = Len(history)
            /\ Len(disengaged_counts) = Len(history)
            /\ StepDone => history[Len(history)] = StatusOf(employees))
    /\ [][/\ \A i \in 1..Len(history) :
                /\ Len(history') >= i
                /\ history'[i] = history[i]
          /\ \A i \in 1..Len(influence_counts) :
                /\ Len(influence_counts') >= i
                /\ influence_counts'[i] = influence_counts[i]
          /\ \A i \in 1..Len(engaged_counts) :
                /\ Len(engaged_counts') >= i
                /\ engaged_counts'[i] = engaged_counts[i]
          /\ \A i \in 1..Len(disengaged_counts) :
                /\ Len(disengaged_counts') >= i
                /\ disengaged_counts'[i] = disengaged_counts[i]]_vars

C9_Witness ==
    /\ RunComplete
    /\ Len(history) = MaxSteps
    /\ \E i \in 1..(MaxSteps - 1) : history[i] # history[i + 1]

\* The employees whose node is on no edge of the graph.
Isolated == {n \in DOMAIN employees : \A e \in G : n \notin e}

RECURSIVE SumSeq(_)
SumSeq(q) == IF q = <<>> THEN 0 ELSE q[1] + SumSeq(Tail(q))

\* C12: moving_average(data, w) with w >= 1 returns data unchanged when
\* len(data) < w, and otherwise len(data) - w + 1 entries, the i-th being
\* the sum of data[i..i+w-1] divided by w.
C12_MovingAverage ==
    smoothing.returned =>
        LET data == smoothing.data
            w == smoothing.window_size
            result == smoothing.result
        IN  IF Len(data) < w
            THEN result = data
            ELSE /\ Len(result) = Len(data) - w + 1
                 /\ \A i \in 1..(Len(data) - w + 1) :
                       RatEq(result[i],
                             <<SumSeq(SubSeq(data, i, i + w - 1)), w>>)

C12_Witness ==
    /\ smoothing.returned
    /\ smoothing.window_size = 2
    /\ smoothing.data = <<0, 2, 1>>
    /\ Len(smoothing.result) = 2

\* The statuses after interact has been called for the first j nodes.
StatusesAfterCalls(j, draws) ==
    StatusOf(InteractAll(employees, G, SubSeq(NodeOrder(params.N), 1, j), 1,
                         params.influence_probability, draws))

\* C13: the interaction loop changes no status: after each of its calls of
\* interact the statuses are those of the start of the step, and a status
\* changes only in the update loop.
C13_ConsistentSnapshot ==
    /\ [](phase = "idle" =>
            \A draws \in [InfluencePairs(employees, G) -> RandomDraws] :
                \A j \in 0..params.N :
                    StatusesAfterCalls(j, draws) = StatusOf(employees))
    /\ [][StatusOf(employees') # StatusOf(employees)
            => phase = "update"]_vars

C13_Witness ==
    /\ phase = "update"
    /\ \E n \in DOMAIN employees :
          /\ employees[n].status = "neutral"
          /\ \E m \in neighbors(G, n) :
                /\ employees[m].status = "high_performer"
                /\ employees[m].engagement_timer > 0
                /\ employees[n].influence_timer = employees[m].capacity

\* The orders in which the interaction loop could visit the n nodes.
Orders(n) ==
    {o \in [1..n -> Nodes(n)] : \A i, j \in 1..n : i # j => o[i] # o[j]}

\* The influence_timer and status of every employee at the end of a step
\* whose interaction loop visits the nodes in the given order.
StepResult(order, draws) ==
    LET interacted == InteractAll(employees, G, order, 1,
                                  params.influence_probability, draws)
        updated == [n \in DOMAIN employees |->
                      update_status(interacted[n], 0)]
    IN  [n \in DOMAIN employees |->
           <<updated[n].influence_timer, updated[n].status>>]

\* C14: for fixed draws (a fixed set of succeeding pairs), every order of
\* visiting the nodes in the interaction loop gives the same influence
\* timers and statuses at the end of the step.
C14_OrderInsensitive ==
    phase = "idle" =>
        \A draws \in [InfluencePairs(employees, G) -> RandomDraws] :
            \A order \in Orders(params.N) :
                StepResult(order, draws)
                  = StepResult(NodeOrder(params.N), draws)

\* Employee n is neutral with a running influence_timer at the end of a
\* step, and the run has at least as many further steps as the timer counts.
CountingDown(n) ==
    /\ phase = "idle"
    /\ n \in DOMAIN employees
    /\ employees[n].status = "neutral"
    /\ employees[n].influence_timer > 0
    /\ step_num + employees[n].influence_timer <= MaxSteps

Promoted(n) ==
    /\ n \in DOMAIN employees
    /\ employees[n].status # "neutral"

\* C15: a neutral employee whose influence_timer is running becomes a
\* high_performer in a later step, whatever interactions succeed meanwhile.
C15_InfluencedEventuallyPromoted ==
    \A n \in Nodes(MaxN) : [](CountingDown(n) => <>Promoted(n))

\* C16: an employee promoted in step t has engagement_timer = 3 at the end
\* of that step, is a high_performer at the end of steps t, t+1 and t+2,
\* and becomes engaged or disengaged in step t+3, not earlier or later.
C16_EngagementPeriod ==
    /\ [](StepDone =>
            \A n \in DOMAIN employees :
                /\ \A t \in 2..Len(history) :
                      (history[t - 1][n] = "neutral"
                         /\ history[t][n] = "high_performer")
                      => \A j \in 1..EngagementPeriod :
                            t + j <= Len(history)
                            => history[t + j][n]
                                 \in IF j < EngagementPeriod
                                     THEN {"high_performer"} ELSE Resolved
                /\ \A t \in 1..Len(history) :
                      (history[t][n] \in Resolved
                         /\ (t > 1 => history[t - 1][n] \notin Resolved))
                      => /\ t > EngagementPeriod
                         /\ \A j \in 1..EngagementPeriod :
                               history[t - j][n] = "high_performer"
                         /\ t - EngagementPeriod > 1
                            => history[t - EngagementPeriod - 1][n] = "neutral"
                /\ employees[n].engagement_timer > 0
                   => LET since == Len(history) - (EngagementPeriod
                                      - employees[n].engagement_timer)
                      IN  /\ since >= 1
                          /\ \A t \in since..Len(history) :
                                history[t][n] = "high_performer"
                          /\ since > 1 => history[since - 1][n] = "neutral")
    /\ [][\A n \in DOMAIN employees :
            (employees[n].status = "neutral"
               /\ employees'[n].status # "neutral")
            => /\ employees'[n].status = "high_performer"
               /\ employees'[n].engagement_timer = EngagementPeriod]_vars

C16_Witness ==
    /\ StepDone
    /\ Len(history) >= EngagementPeriod + 2
    /\ \E n \in DOMAIN employees :
          /\ history[1][n] = "neutral"
          /\ \A j \in 0..(EngagementPeriod - 1) :
                history[2 + j][n] = "high_performer"
          /\ history[2 + EngagementPeriod][n] \in Resolved

\* update_status called k times on employee e.
RECURSIVE UpdateTimes(_, _)
UpdateTimes(e, k) ==
    IF k = 0 THEN e ELSE UpdateTimes(update_status(e, 0), k - 1)

\* Employee n after a successful interact of its neighbour m.
InfluencedBy(n, m) ==
    interact(employees, m, {n}, params.influence_probability,
             [pr \in InfluencePairs(employees, G) |-> 0])[n]

\* C17: a neutral employee whose influence_timer is set to the capacity c of
\* an influencer and not set again is neutral after each of the next c - 1
\* calls of update_status and a high_performer after the c-th, the first
\* call being the one of the same step: the timer is only set in the
\* interaction loop, to the capacity of a high_performer neighbour, and each
\* update loop decrements a running timer by one, promoting at zero.
C17_PromotedAfterCapacitySteps ==
    /\ [](phase = "idle" /\ params.influence_probability > 0 =>
            \A pr \in InfluencePairs(employees, G) :
                LET c == employees[pr[1]].capacity
                    e == InfluencedBy(pr[2], pr[1])
                IN  /\ e.influence_timer = c
                    /\ \A k \in 0..c :
                          UpdateTimes(e, k).status =
                             IF k < c THEN "neutral" ELSE "high_performer")
    /\ [][\A n \in DOMAIN employees :
            /\ (phase = "idle"
                  /\ employees'[n].influence_timer
                       # employees[n].influence_timer)
               => /\ employees[n].status = "neutral"
                  /\ \E m \in neighbors(G, n) :
                        /\ employees[m].status = "high_performer"
                        /\ employees'[n].influence_timer
                             = employees[m].capacity
            /\ (phase = "update" /\ employees[n].status = "neutral")
               => IF employees[n].influence_timer = 0
                  THEN employees'[n] = employees[n]
                  ELSE /\ employees'[n].influence_timer
                            = employees[n].influence_timer - 1
                       /\ employees'[n].status =
                             IF employees[n].influence_timer = 1
                             THEN "high_performer" ELSE "neutral"]_vars

C17_Witness ==
    /\ StepDone
    /\ Len(history) >= 3
    /\ \E n \in DOMAIN employees :
          /\ history[1][n] = "neutral"
          /\ history[2][n] = "neutral"
          /\ history[3][n] = "high_performer"
          /\ \A m \in neighbors(G, n) : employees[m].capacity = 3

\* The employees that went from status a to status b in the completed
\* step t > 1.
Moved(t, a, b) ==
    {n \in DOMAIN employees : history[t - 1][n] = a /\ history[t][n] = b}

\* C18: the counters account for every status change: the sums of the
\* three sequences are the numbers of employees promoted, engaged and
\* disengaged so far, and each step's entries are the numbers of employees
\* that made the transition in that step.
C18_CountersAccount ==
    /\ [](Constructed =>
            /\ params.initial_high_performers + SumSeq(influence_counts)
                 = params.N - CountOf("neutral")
            /\ SumSeq(engaged_counts) = CountOf("engaged")
            /\ SumSeq(disengaged_counts) = CountOf("disengaged")
            /\ \A t \in 2..Len(history) :
                  /\ influence_counts[t]
                       = Cardinality(Moved(t, "neutral", "high_performer"))
                  /\ engaged_counts[t]
                       = Cardinality(Moved(t, "high_performer", "engaged"))
                  /\ disengaged_counts[t]
                       = Cardinality(Moved(t, "high_performer",
                                           "disengaged")))
    /\ [][phase = "update" =>
            LET went(a, b) ==
                  Cardinality({n \in DOMAIN employees :
                                  /\ employees[n].status = a
                                  /\ employees'[n].status = b})
                t == Len(history) + 1
            IN  /\ influence_counts'[t] = went("neutral", "high_performer")
                /\ engaged_counts'[t] = went("high_performer", "engaged")
                /\ disengaged_counts'[t]
                     = went("high_performer", "disengaged")]_vars

C18_Witness ==
    /\ RunComplete
    /\ SumSeq(influence_counts) >= 2
    /\ SumSeq(engaged_counts) >= 1
    /\ SumSeq(disengaged_counts) >= 1

MaxCapacity == CHOOSE c \in Capacities : \A d \in Capacities : d <= c

\* C19: at the end of construction and of every step, influence_timer > 0
\* only for neutral employees and at most 3, engagement_timer > 0 only for
\* high performers and at most 3; between the two loops of a step
\* influence_timer is at most 4; right after construction all timers are 0.
C19_TimersCoupledToStatus ==
    Constructed =>
        \A n \in DOMAIN employees :
            /\ employees[n].influence_timer > 0
               => employees[n].status = "neutral"
            /\ employees[n].influence_timer
                 <= IF phase = "update" THEN MaxCapacity ELSE MaxCapacity - 1
            /\ employees[n].engagement_timer > 0
               => employees[n].status = "high_performer"
            /\ employees[n].engagement_timer <= EngagementPeriod
            /\ step_num = 0
               => /\ employees[n].influence_timer = 0
                  /\ employees[n].engagement_timer = 0

C19_Witness ==
    /\ phase = "update"
    /\ \E n, m \in DOMAIN employees :
          /\ employees[n].influence_timer = MaxCapacity
          /\ employees[m].engagement_timer = EngagementPeriod

===========================================================================
